---- MODULE Spec2Model ----
(***************************************************************************)
(* Model of app.py, the distance-based coordinate/commune checker.         *)
(*                                                                         *)
(* app.py is a Streamlit script: the server executes it from the first     *)
(* line to the last once when the page opens and once more after every     *)
(* widget interaction (a new file, a move of the slider).  Each execution  *)
(* starts with fresh script globals; only the st.cache_data store and the  *)
(* widget values survive from one execution to the next.                   *)
(*                                                                         *)
(* Units: coordinates and distances are integers in metres of arc, the     *)
(* slider value is in metres (0.1 km = 100).  The commune column holds     *)
(* text, so str(commune) returns the name itself.  A name is a sequence of *)
(* one-character strings.  Python's None is the empty tuple, a present     *)
(* optional number x is <<x>>.                                             *)
(***************************************************************************)
EXTENDS Integers, Sequences, FiniteSets, TLC

VARIABLES
    cache_data,                     \* st.cache_data store of get_commune_centroid: name -> returned value
    commune_centroids,              \* the script global dict: name -> (lat, lng)
    secret,                         \* TRUE when st.secrets holds OPENCAGE_API_KEY in this execution
    geocoder,                       \* TRUE once OpenCageGeocode(API_KEY) exists in this execution
    uploaded_file,                  \* value of the file_uploader widget
    slider,                         \* value of the slider widget
    pc,                             \* position of the current script execution
    df,                             \* rows read from the CSV file
    unique_communes,                \* df['commune'].unique()
    i,                              \* pre-pass loop position (1-based)
    geocoded_unique_communes_count,
    DISTANCE_THRESHOLD_KM,
    results,                        \* the list of result records
    index,                          \* row loop position (1-based)
    calls,                          \* provider forward lookups per name, whole process
    runCalls,                       \* provider forward lookups per name, this execution
    failed,                         \* names whose forward lookup has failed at least once
    lastCall,                       \* the latest get_commune_centroid call, as observed
    runs                            \* script executions so far

vars == <<cache_data, commune_centroids, secret, geocoder, uploaded_file, slider, pc, df,
          unique_communes, i, geocoded_unique_communes_count, DISTANCE_THRESHOLD_KM,
          results, index, calls, runCalls, failed, lastCall, runs>>

----------------------------------------------------------------------------
(* Bounds *)

MaxRows == 2
MaxRuns == 3

----------------------------------------------------------------------------
(* Values *)

None == <<>>
Some(x) == <<x>>

\* 90 degrees of latitude in metres of arc (mean radius 6371.0088 km).
MaxLat == 90 * 111195

\* st.slider(min_value=0.1, max_value=50.0, value=2.0, step=0.1)
SliderDefault == 2000
SliderMin == 100
SliderValues == {SliderMin, SliderDefault}

Paris == <<"P", "a">>
ParisSpaced == <<"p", "a", " ">>
CommuneNames == {Paris, ParisSpaced}

\* GPS points of the rows: two valid points on the equator, one latitude out of range.
PointValues == {<<0, 2000>>, <<0, 2006>>, <<MaxLat + 1, 0>>}

\* Coordinates the provider may answer with.
CentroidValues == {<<0, 0>>, <<0, 6>>}

RowValues ==
    {[latitude |-> p[1], longitude |-> p[2], commune |-> c] : p \in PointValues, c \in CommuneNames}

Datasets == UNION {[1..n -> RowValues] : n \in 0..MaxRows}

NoFile == [kind |-> "none", rows |-> <<>>]
Unreadable == [kind |-> "unreadable", rows |-> <<>>]
MissingColumns == [kind |-> "missing_columns", rows |-> <<>>]
CsvFile(rows) == [kind |-> "csv", rows |-> rows]
FileValues == {NoFile, Unreadable, MissingColumns} \cup {CsvFile(d) : d \in Datasets}

\* What geocoder.geocode may do: raise, or return a list of results (first one is used).
ProviderResponses ==
    {[raises |-> TRUE, results |-> <<>>], [raises |-> FALSE, results |-> <<>>]}
    \cup {[raises |-> FALSE, results |-> <<c>>] : c \in CentroidValues}
    \cup {[raises |-> FALSE, results |-> <<c, d>>] : c \in CentroidValues, d \in CentroidValues}

EmptyDict == <<>>
Put(f, k, v) == [x \in DOMAIN f \cup {k} |-> IF x = k THEN v ELSE f[x]]

NoCall == [name |-> <<>>, priorFail |-> FALSE, issued |-> FALSE, ret |-> None]

----------------------------------------------------------------------------
(* Pure functions *)

\* Normalized form of a place name: lowercased, surrounding whitespace trimmed.
Lower(ch) == CASE ch = "P" -> "p" [] ch = "A" -> "a" [] OTHER -> ch

RECURSIVE LStrip(_)
LStrip(s) == IF s # <<>> /\ Head(s) = " " THEN LStrip(Tail(s)) ELSE s

RECURSIVE RStrip(_)
RStrip(s) == IF s # <<>> /\ s[Len(s)] = " " THEN RStrip(SubSeq(s, 1, Len(s) - 1)) ELSE s

Normalize(s) == LStrip(RStrip([k \in 1..Len(s) |-> Lower(s[k])]))

Abs(x) == IF x < 0 THEN -x ELSE x

\* geopy great_circle(point, centroid).km: ValueError for a latitude outside
\* [-90, 90]; otherwise the distance, which for the points used here (all on
\* the equator) is the difference of the longitudes.
great_circle(point, centroid) ==
    IF Abs(point[1]) > MaxLat \/ Abs(centroid[1]) > MaxLat
    THEN [raises |-> TRUE, km |-> 0]
    ELSE [raises |-> FALSE, km |-> Abs(point[1] - centroid[1]) + Abs(point[2] - centroid[2])]

\* f"{distance:.2f}": metres rounded to hundredths of a kilometre.
Format2f(d) == (d + 5) \div 10

\* df['commune'].unique(): distinct values in order of first appearance.
RECURSIVE Unique(_)
Unique(s) ==
    IF s = <<>> THEN <<>>
    ELSE LET init == Unique(SubSeq(s, 1, Len(s) - 1))
             last == s[Len(s)]
         IN IF \E k \in 1..Len(init) : init[k] = last THEN init ELSE Append(init, last)

CommuneColumn(rows) == [k \in 1..Len(rows) |-> rows[k].commune]

----------------------------------------------------------------------------
(* get_commune_centroid *)

\* The function body: the dict is consulted first, only a successful lookup is
\* stored in it, a failed lookup returns None.
get_commune_centroid_body(commune_name, response, centroids) ==
    IF commune_name \in DOMAIN centroids
    THEN [ret |-> centroids[commune_name], centroids |-> centroids, issued |-> FALSE]
    ELSE IF response.raises
    THEN [ret |-> None, centroids |-> centroids, issued |-> TRUE]
    ELSE IF Len(response.results) > 0
    THEN [ret |-> response.results[1],
          centroids |-> Put(centroids, commune_name, response.results[1]),
          issued |-> TRUE]
    ELSE [ret |-> None, centroids |-> centroids, issued |-> TRUE]

\* The function without its decorator.
get_commune_centroid_undecorated(commune_name, response, store, centroids) ==
    LET b == get_commune_centroid_body(commune_name, response, centroids)
    IN [ret |-> b.ret, store |-> store, centroids |-> b.centroids, issued |-> b.issued]

\* A decorator that would store only the results that are not None.
get_commune_centroid_keep_successes(commune_name, response, store, centroids) ==
    IF commune_name \in DOMAIN store
    THEN [ret |-> store[commune_name], store |-> store, centroids |-> centroids, issued |-> FALSE]
    ELSE LET b == get_commune_centroid_body(commune_name, response, centroids)
         IN [ret |-> b.ret,
             store |-> IF b.ret = None THEN store ELSE Put(store, commune_name, b.ret),
             centroids |-> b.centroids, issued |-> b.issued]

\* The function with its argument normalized before it is used as the key.
get_commune_centroid_normalized(commune_name, response, store, centroids) ==
    IF Normalize(commune_name) \in DOMAIN store
    THEN [ret |-> store[Normalize(commune_name)], store |-> store, centroids |-> centroids,
          issued |-> FALSE]
    ELSE LET b == get_commune_centroid_body(Normalize(commune_name), response, centroids)
         IN [ret |-> b.ret, store |-> Put(store, Normalize(commune_name), b.ret),
             centroids |-> b.centroids, issued |-> b.issued]

\* The function as decorated by @st.cache_data: the store is keyed by the
\* argument; on a hit the stored return value is handed back and the body does
\* not run; on a miss the body runs and whatever it returns (None included,
\* the body raises nothing) is stored.
get_commune_centroid(commune_name, response, store, centroids) ==
    IF commune_name \in DOMAIN store
    THEN [ret |-> store[commune_name], store |-> store, centroids |-> centroids, issued |-> FALSE]
    ELSE LET b == get_commune_centroid_body(commune_name, response, centroids)
         IN [ret |-> b.ret, store |-> Put(store, commune_name, b.ret),
             centroids |-> b.centroids, issued |-> b.issued]

\* State change of one call, with what an observer of the provider records.
CallEffect(commune_name, r) ==
    /\ cache_data' = r.store
    /\ commune_centroids' = r.centroids
    /\ calls' = IF r.issued THEN [calls EXCEPT ![commune_name] = @ + 1] ELSE calls
    /\ runCalls' = IF r.issued THEN [runCalls EXCEPT ![commune_name] = @ + 1] ELSE runCalls
    /\ failed' = IF r.issued /\ r.ret = None THEN failed \cup {commune_name} ELSE failed
    /\ lastCall' = [name |-> commune_name, priorFail |-> commune_name \in failed,
                    issued |-> r.issued, ret |-> r.ret]

----------------------------------------------------------------------------
(* The row decision *)

OutOfThresholdOrEqual(distance, threshold) == distance >= threshold

\* if distance > DISTANCE_THRESHOLD_KM
OutOfThreshold(distance, threshold) == distance > threshold

CentroidMissingBranchUnflagged(commune_attendue) ==
    [distance |-> None, is_out_of_threshold |-> FALSE,
     error_message |-> <<"no_centroid", commune_attendue>>]

\* else: the centre of the commune was not found
CentroidMissingBranch(commune_attendue) ==
    [distance |-> None, is_out_of_threshold |-> TRUE,
     error_message |-> <<"no_centroid", commune_attendue>>]

DistanceBranchSilentWithin(point_coords, centroid_coords, threshold) ==
    LET d == great_circle(point_coords, centroid_coords)
    IN IF d.raises
       THEN [distance |-> None, is_out_of_threshold |-> TRUE, error_message |-> <<"calc_error">>]
       ELSE IF OutOfThreshold(d.km, threshold)
       THEN [distance |-> Some(d.km), is_out_of_threshold |-> TRUE,
             error_message |-> <<"above", Format2f(d.km), threshold>>]
       ELSE [distance |-> Some(d.km), is_out_of_threshold |-> FALSE, error_message |-> None]

\* if centroid_coords: try the distance, compare it, word the message
DistanceBranch(point_coords, centroid_coords, threshold) ==
    LET d == great_circle(point_coords, centroid_coords)
    IN IF d.raises
       THEN [distance |-> None, is_out_of_threshold |-> TRUE, error_message |-> <<"calc_error">>]
       ELSE IF OutOfThreshold(d.km, threshold)
       THEN [distance |-> Some(d.km), is_out_of_threshold |-> TRUE,
             error_message |-> <<"above", Format2f(d.km), threshold>>]
       ELSE [distance |-> Some(d.km), is_out_of_threshold |-> FALSE,
             error_message |-> <<"below", Format2f(d.km), threshold>>]

\* The record appended for one row.
RowRecord(row, centroid_coords, threshold) ==
    LET o == IF centroid_coords # None
             THEN DistanceBranch(<<row.latitude, row.longitude>>, centroid_coords, threshold)
             ELSE CentroidMissingBranch(row.commune)
    IN [latitude |-> row.latitude,
        longitude |-> row.longitude,
        commune_attendue |-> row.commune,
        commune_centre_lat |-> IF centroid_coords # None THEN Some(centroid_coords[1]) ELSE None,
        commune_centre_lon |-> IF centroid_coords # None THEN Some(centroid_coords[2]) ELSE None,
        distance_au_centre_km |-> o.distance,
        est_hors_seuil |-> o.is_out_of_threshold,
        message_detail |-> o.error_message]

AppendResultFront(list, record) == <<record>> \o list

\* results.append({...})
AppendResult(list, record) == Append(list, record)

----------------------------------------------------------------------------
(* The script *)

SecretsLookupIgnored(hasKey) == "continue"

\* try: API_KEY = st.secrets[...]  except: st.error(...); st.stop()
SecretsLookup(hasKey) == IF hasKey THEN "continue" ELSE "stop"

\* One script execution from its first line to the start of the pre-pass
\* (or to its end when there is nothing to process), under the given widget
\* values.  Script globals start afresh in every execution.
ScriptTop(file, sliderValue, hasKey) ==
    /\ runs' = runs + 1
    /\ secret' = hasKey
    /\ uploaded_file' = file
    /\ runCalls' = [n \in CommuneNames |-> 0]
    /\ lastCall' = NoCall
    /\ commune_centroids' = EmptyDict
    /\ results' = <<>>
    /\ i' = 1
    /\ index' = 1
    /\ geocoded_unique_communes_count' = 0
    /\ DISTANCE_THRESHOLD_KM' = 0
    /\ UNCHANGED <<cache_data, calls, failed>>
    /\ IF SecretsLookup(hasKey) = "stop"
       THEN /\ pc' = "stopped"
            /\ geocoder' = FALSE
            /\ df' = <<>>
            /\ unique_communes' = <<>>
            /\ slider' = SliderDefault
       ELSE /\ geocoder' = TRUE
            /\ CASE file.kind = "none" ->
                      /\ pc' = "no_file"
                      /\ df' = <<>>
                      /\ unique_communes' = <<>>
                      /\ slider' = SliderDefault
                 [] file.kind = "unreadable" ->
                      /\ pc' = "csv_error"
                      /\ df' = <<>>
                      /\ unique_communes' = <<>>
                      /\ slider' = SliderDefault
                 [] file.kind = "missing_columns" ->
                      /\ pc' = "missing_columns"
                      /\ df' = file.rows
                      /\ unique_communes' = <<>>
                      /\ slider' = SliderDefault
                 [] OTHER ->
                      /\ pc' = "prepass"
                      /\ df' = file.rows
                      /\ unique_communes' = Unique(CommuneColumn(file.rows))
                      /\ slider' = sliderValue

Ended == pc \in {"stopped", "no_file", "csv_error", "missing_columns", "done"}

\* The user picks a file in the uploader; the script is executed again.
UploadFile(file, hasKey) ==
    /\ Ended
    /\ runs < MaxRuns
    /\ ScriptTop(file, slider, hasKey)

\* The user moves the slider (it is on the page only after a run that reached
\* it); the script is executed again.
MoveSlider(value, hasKey) ==
    /\ pc = "done"
    /\ runs < MaxRuns
    /\ ScriptTop(uploaded_file, value, hasKey)

\* One iteration of the pre-pass over the unique communes.
PrepassStep(response) ==
    /\ pc = "prepass"
    /\ i <= Len(unique_communes)
    /\ LET r == get_commune_centroid(unique_communes[i], response, cache_data, commune_centroids)
       IN /\ CallEffect(unique_communes[i], r)
          /\ geocoded_unique_communes_count' = Cardinality(DOMAIN r.centroids)
    /\ i' = i + 1
    /\ UNCHANGED <<secret, geocoder, uploaded_file, slider, pc, df, unique_communes,
                   DISTANCE_THRESHOLD_KM, results, index, runs>>

\* End of the pre-pass: the slider is read, the results list is created.
StartRows ==
    /\ pc = "prepass"
    /\ i > Len(unique_communes)
    /\ DISTANCE_THRESHOLD_KM' = slider
    /\ results' = <<>>
    /\ index' = 1
    /\ pc' = "rows"
    /\ UNCHANGED <<cache_data, commune_centroids, secret, geocoder, uploaded_file, slider, df,
                   unique_communes, i, geocoded_unique_communes_count, calls, runCalls,
                   failed, lastCall, runs>>

\* One iteration of the row loop.
RowStep(response) ==
    /\ pc = "rows"
    /\ index <= Len(df)
    /\ LET row == df[index]
           r == get_commune_centroid(row.commune, response, cache_data, commune_centroids)
       IN /\ CallEffect(row.commune, r)
          /\ results' = AppendResult(results, RowRecord(row, r.ret, DISTANCE_THRESHOLD_KM))
    /\ index' = index + 1
    /\ UNCHANGED <<secret, geocoder, uploaded_file, slider, pc, df, unique_communes, i,
                   geocoded_unique_communes_count, DISTANCE_THRESHOLD_KM, runs>>

\* After the loop: results_df is built and filtered on 'est_hors_seuil'; an
\* empty results list gives a frame without that column, the KeyError lands
\* in the outer except.
Finish ==
    /\ pc = "rows"
    /\ index > Len(df)
    /\ pc' = IF results = <<>> THEN "csv_error" ELSE "done"
    /\ UNCHANGED <<cache_data, commune_centroids, secret, geocoder, uploaded_file, slider, df,
                   unique_communes, i, geocoded_unique_communes_count,
                   DISTANCE_THRESHOLD_KM, results, index, calls, runCalls, failed,
                   lastCall, runs>>

\* The first execution, when the page opens: no file in the uploader yet.
Init ==
    /\ cache_data = EmptyDict
    /\ commune_centroids = EmptyDict
    /\ uploaded_file = NoFile
    /\ slider = SliderDefault
    /\ df = <<>>
    /\ unique_communes = <<>>
    /\ i = 1
    /\ geocoded_unique_communes_count = 0
    /\ DISTANCE_THRESHOLD_KM = 0
    /\ results = <<>>
    /\ index = 1
    /\ calls = [n \in CommuneNames |-> 0]
    /\ runCalls = [n \in CommuneNames |-> 0]
    /\ failed = {}
    /\ lastCall = NoCall
    /\ runs = 1
    /\ \E hasKey \in BOOLEAN :
          /\ secret = hasKey
          /\ pc = IF SecretsLookup(hasKey) = "stop" THEN "stopped" ELSE "no_file"
          /\ geocoder = (SecretsLookup(hasKey) # "stop")

Next ==
    \/ \E file \in FileValues, hasKey \in BOOLEAN : UploadFile(file, hasKey)
    \/ \E value \in SliderValues, hasKey \in BOOLEAN : MoveSlider(value, hasKey)
    \/ \E response \in ProviderResponses : PrepassStep(response)
    \/ StartRows
    \/ \E response \in ProviderResponses : RowStep(response)
    \/ Finish

Spec == Init /\ [][Next]_vars

----------------------------------------------------------------------------
(* Properties *)

Records == {results[k] : k \in 1..Len(results)}

PointOf(r) == <<r.latitude, r.longitude>>
CentroidOf(r) == <<r.commune_centre_lat[1], r.commune_centre_lon[1]>>

\* C1: in one run, every commune name whose forward lookup succeeded (it then
\* has an entry in the dict of this run) has had exactly one provider forward
\* lookup, however many rows carry it.
C1_OneLookupPerResolvedName ==
    \A n \in CommuneNames : n \in DOMAIN commune_centroids => runCalls[n] = 1

C1_Witness ==
    /\ pc = "done"
    /\ Len(df) >= 2
    /\ df[1].commune = df[2].commune
    /\ df[1].commune \in DOMAIN commune_centroids
    /\ runCalls[df[1].commune] = 1

\* C2: a call of get_commune_centroid for a name whose earlier lookup failed
\* issues a new provider forward lookup.
C2_FailuresAreRetried == lastCall.priorFail => lastCall.issued

C4_MatchedIffWithinThreshold ==
    \A r \in Records :
        LET resolved == r.commune_centre_lat # None
            d == IF resolved THEN great_circle(PointOf(r), CentroidOf(r))
                 ELSE [raises |-> TRUE, km |-> 0]
        IN /\ (r.est_hors_seuil = FALSE) <=>
                  (resolved /\ ~d.raises /\ d.km <= DISTANCE_THRESHOLD_KM)
           /\ (r.est_hors_seuil = TRUE) <=>
                  (~resolved \/ d.raises \/ d.km > DISTANCE_THRESHOLD_KM)

C4_Witness ==
    \E r \in Records :
        /\ r.distance_au_centre_km = Some(DISTANCE_THRESHOLD_KM)
        /\ r.est_hors_seuil = FALSE

\* C5: a row whose centroid is unresolvable or whose distance cannot be
\* computed still gives a record, flagged, with a detail (naming the commune
\* when the centroid is missing) and absent centroid/distance fields; the
\* loop goes on to the next row, one record per handled row.
C5_RowFailuresAreRecorded ==
    /\ \A r \in Records :
          /\ r.commune_centre_lat = None =>
                /\ r.est_hors_seuil = TRUE
                /\ r.message_detail = <<"no_centroid", r.commune_attendue>>
                /\ r.commune_centre_lon = None
                /\ r.distance_au_centre_km = None
          /\ (r.commune_centre_lat # None /\ great_circle(PointOf(r), CentroidOf(r)).raises) =>
                /\ r.est_hors_seuil = TRUE
                /\ r.message_detail = <<"calc_error">>
                /\ r.distance_au_centre_km = None
    /\ pc = "rows" => Len(results) = index - 1
    /\ pc = "done" => Len(results) = Len(df)

C5_Witness ==
    /\ pc = "done"
    /\ Len(results) = 2
    /\ results[1].commune_centre_lat = None
    /\ results[1].commune_attendue \in failed
    /\ results[2].message_detail = <<"calc_error">>

\* C6: the records are the rows in input order: at every point of the loop
\* the k-th record carries the latitude, longitude and commune of the k-th
\* row, and a completed run has as many records as rows.
C6_OneRecordPerRowInOrder ==
    /\ Len(results) <= Len(df)
    /\ \A k \in 1..Len(results) :
          /\ results[k].latitude = df[k].latitude
          /\ results[k].longitude = df[k].longitude
          /\ results[k].commune_attendue = df[k].commune
    /\ pc = "done" => Len(results) = Len(df)

C6_Witness ==
    /\ pc = "done"
    /\ Len(df) = 2
    /\ df[1] # df[2]

\* C7: in an execution where the API key is missing the script is stopped
\* at once: no geocoder, no provider forward lookup, no row read, no record.
C7_MissingCredentialIsFatal ==
    ~secret =>
        /\ pc = "stopped"
        /\ ~geocoder
        /\ \A n \in CommuneNames : runCalls[n] = 0
        /\ df = <<>>
        /\ results = <<>>

C7_Witness ==
    /\ ~secret
    /\ pc = "stopped"
    /\ uploaded_file.kind = "csv"
    /\ Len(uploaded_file.rows) > 0
    /\ runs > 1

\* C8: every record has a detail; with a computed distance the detail gives
\* the distance (as formatted) and the threshold, within and beyond the
\* threshold alike; without one it gives the reason.
C8_DetailAlwaysPopulated ==
    \A r \in Records :
        /\ r.message_detail # None
        /\ r.distance_au_centre_km # None =>
              /\ Head(r.message_detail) = (IF r.est_hors_seuil THEN "above" ELSE "below")
              /\ r.message_detail[2] = Format2f(r.distance_au_centre_km[1])
              /\ r.message_detail[3] = DISTANCE_THRESHOLD_KM
        /\ r.distance_au_centre_km = None =>
              /\ r.est_hors_seuil = TRUE
              /\ Head(r.message_detail) \in {"no_centroid", "calc_error"}

C8_Witness ==
    /\ Len(results) = 2
    /\ Head(results[1].message_detail) = "below"
    /\ Head(results[2].message_detail) = "above"
    /\ results[2].message_detail[2] * 10 # results[2].distance_au_centre_km[1]

\* C9: an entry of the centroid dict, once created, stays with the same
\* coordinate through every later step of the process.
C9_EntriesPersist ==
    [][\A n \in DOMAIN commune_centroids :
          /\ n \in DOMAIN commune_centroids'
          /\ commune_centroids'[n] = commune_centroids[n]]_vars

\* C10: within one run all records with the same expected commune carry the
\* same centroid fields (all absent, or all the same coordinate).
C10_SameCentroidPerCommune ==
    \A r \in Records, q \in Records :
        r.commune_attendue = q.commune_attendue =>
            /\ r.commune_centre_lat = q.commune_centre_lat
            /\ r.commune_centre_lon = q.commune_centre_lon

C10_Witness ==
    /\ Len(results) = 2
    /\ results[1].commune_attendue = results[2].commune_attendue
    /\ results[1].commune_attendue \in failed
    /\ results[1].commune_centre_lat = None
    /\ results[2].commune_centre_lat = None

====
